---- MODULE Spec2Model ----
(***************************************************************************)
(* Launchium, a terminal manager of Chromium profiles (src/main.go and its *)
(* earlier variant src/unnamed/part_000).                                  *)
(*                                                                         *)
(* Go strings are TLA+ strings; a byte of a string is SubSeq(s, i, i).     *)
(* The profile store is the file profiles.conf inside the profile          *)
(* directory; every profile owns a working directory beside it.            *)
(***************************************************************************)
EXTENDS Integers, Sequences, FiniteSets, TLC

VARIABLES
    pc,            \* where the process is: "boot", "run", "exit" (and the store harness's steps)
    cmd,           \* os.Args[1] as parseCommandLine reads it ("" starts the interactive UI)
    cmdProfile,    \* the -profile option of launch and clean
    exitCode,      \* the status of os.Exit, -1 while the process runs
    stdout,        \* the last line main printed
    goos,          \* runtime.GOOS
    build,         \* which of the two source variants is built: "main" or "part_000"
    binaries,      \* the paths at which os.Stat finds a file
    chromePath,    \* cm.chromePath
    err,           \* cm.err ("" is nil)
    profiles,      \* cm.profiles
    currentView,   \* cm.currentView
    message,       \* cm.message
    selected,      \* cm.selected
    profileName,   \* cm.profileName
    profileProxy,  \* cm.profileProxy
    profileType,   \* cm.profileType
    profileFlags,  \* cm.profileFlags
    profileList,   \* the titles of cm.profileList's items
    fileExists,    \* whether cm.configFile exists
    file,          \* the contents of cm.configFile
    dirs,          \* the directories inside cm.profileDir: name -> (entry -> contents)
    diskOK,        \* whether the file system accepts writes at the moment
    cmdArgs,       \* the argument list of the last launchBrowser
    attempts,      \* the spawn mechanisms the last launchBrowser tried, in order
    started,       \* for each of them, whether its cmd.Start() succeeded
    key,           \* the last tea.KeyMsg Update consumed
    nkeys,         \* how many key messages Update has received (session harness: since its start)
    saved,         \* store harness: the mapping handed to saveProfiles
    cleanRun,      \* the last clean: its path, whether ReadDir succeeded, the removals done
    flow           \* which item of manage opened the editor in use: "add", "edit", "" outside it

\* what the process is started with: fixed while it runs
envVars == <<cmd, cmdProfile, goos, build, diskOK, binaries>>
\* the same and what the construction of the manager fixes
argVars == <<envVars, chromePath, err>>
procVars == <<pc, exitCode, stdout>>
bufVars == <<profileName, profileProxy, profileType, profileFlags>>
uiVars == <<currentView, message, selected, profileList>>
fsVars == <<fileExists, file, dirs>>
spawnVars == <<cmdArgs, attempts, started>>
histVars == <<saved, cleanRun, flow>>
vars == <<argVars, procVars, profiles, uiVars, bufVars, fsVars, spawnVars, key, nkeys, histVars>>

(***************************************************************************)
(* Bounds of the model.                                                    *)
(***************************************************************************)
\* profiles of a mapping handed to save in the store harness
MaxStoreProfiles == 2
\* lines of a store file handed to load in the store harness
MaxLines == 3

(***************************************************************************)
(* The strings package.                                                    *)
(***************************************************************************)
Char(s, i) == SubSeq(s, i, i)

HasPrefix(s, p) == Len(s) >= Len(p) /\ SubSeq(s, 1, Len(p)) = p

\* the least index of byte c in s, 0 when s has none
IndexByte(s, c) ==
    IF \E i \in 1..Len(s) : Char(s, i) = c
    THEN CHOOSE i \in 1..Len(s) :
            Char(s, i) = c /\ \A j \in 1..(i - 1) : Char(s, j) # c
    ELSE 0

\* strings.Split(s, sep) for a one-byte sep: always at least one part
RECURSIVE Split(_, _)
Split(s, sep) ==
    LET i == IndexByte(s, sep)
    IN  IF i = 0 THEN <<s>>
        ELSE <<SubSeq(s, 1, i - 1)>> \o Split(SubSeq(s, i + 1, Len(s)), sep)

\* strings.Join(parts, sep)
RECURSIVE Join(_, _)
Join(parts, sep) ==
    IF Len(parts) = 0 THEN ""
    ELSE IF Len(parts) = 1 THEN parts[1]
    ELSE parts[1] \o sep \o Join(Tail(parts), sep)

Contains(s, c) == IndexByte(s, c) # 0

(***************************************************************************)
(* Profiles and the mapping cm.profiles.                                   *)
(***************************************************************************)
Profile(n, p, t, f) == [Name |-> n, Proxy |-> p, ProxyType |-> t, Flags |-> f]

\* the record of a clean: its path, whether ReadDir succeeded, how many
\* entries the loop removed; NoClean before any
CleanRun(path, readOK, k) == [path |-> path, readOK |-> readOK, k |-> k]
NoClean == CleanRun("", TRUE, 0)

NoProfiles == [n \in {} |-> Profile("", "", "", "")]

\* cm.profiles[k] = v
MapPut(m, k, v) == [n \in DOMAIN m \cup {k} |-> IF n = k THEN v ELSE m[n]]

\* delete(cm.profiles, k)
MapDelete(m, k) == [n \in DOMAIN m \ {k} |-> m[n]]

DefaultFlags == "--no-first-run --disable-features=RendererCodeIntegrity"

CleanFlags == "--no-first-run --disable-features=RendererCodeIntegrity,UseChromeOSDirectVideoDecoder --disable-gpu-driver-bug-workarounds --ignore-gpu-blacklist --disable-gpu-compositing --disable-infobars"

\* the defaults slice of loadProfiles
Defaults ==
    << Profile("default", "none", "none", DefaultFlags),
       Profile("clean", "none", "none", CleanFlags) >>

\* fmt.Sprintf("%s|%s|%s|%s\n", ...)
FormatLine(p) == p.Name \o "|" \o p.Proxy \o "|" \o p.ProxyType \o "|" \o p.Flags \o "\n"

\* content += FormatLine(p) over a slice of profiles
RECURSIVE FormatAll(_)
FormatAll(ps) == IF Len(ps) = 0 THEN "" ELSE FormatLine(ps[1]) \o FormatAll(Tail(ps))

\* faulty variant: only the first default is seeded
SeedContentOnlyDefault == FormatAll(<<Defaults[1]>>)

\* the file loadProfiles writes when there is none
SeedContent == FormatAll(Defaults)

\* the orders in which a range over the map may visit its keys
Orders(S) ==
    { o \in [1..Cardinality(S) -> S] : \A i, j \in 1..Cardinality(S) : i # j => o[i] # o[j] }

\* the contents saveProfiles can write for mapping m: one line per entry, in
\* any iteration order of the map
SaveContents(m) ==
    { FormatAll([i \in 1..Cardinality(DOMAIN m) |-> m[o[i]]]) : o \in Orders(DOMAIN m) }

\* faulty variant: comment lines are parsed as data
SkipLineBlankOnly(line) == line = ""

\* the lines loadProfiles skips
SkipLine(line) == line = "" \/ HasPrefix(line, "#")

\* the lines loadProfiles takes a profile from, given their '|' parts
AcceptParts(parts) == Len(parts) >= 4

\* the profile loadProfiles builds from an accepted line
ProfileOfParts(parts) == Profile(parts[1], parts[2], parts[3], parts[4])

\* the loop of loadProfiles over the lines, in order, into mapping m
RECURSIVE LoadLines(_, _)
LoadLines(m, lines) ==
    IF Len(lines) = 0 THEN m
    ELSE LET line == lines[1]
             parts == Split(line, "|")
             m1 == IF ~SkipLine(line) /\ AcceptParts(parts)
                   THEN MapPut(m, parts[1], ProfileOfParts(parts))
                   ELSE m
         IN  LoadLines(m1, Tail(lines))

\* loadProfiles on a manager whose mapping is m: seeds the file when it does
\* not exist (the write's error is dropped), then reads it; a failed read
\* returns before the mapping or the profile list is touched
LoadProfiles(m) ==
    LET seeded == ~fileExists /\ diskOK
        readable == fileExists \/ seeded
        data == IF fileExists THEN file ELSE SeedContent
    IN  /\ fileExists' = readable
        /\ file' = IF seeded THEN SeedContent ELSE file
        /\ profiles' = IF readable THEN LoadLines(m, Split(data, "\n")) ELSE m
        /\ profileList' = IF readable THEN DOMAIN profiles' ELSE profileList

\* faulty variant: nothing is written
SaveProfilesNever(m) == UNCHANGED <<fileExists, file>>

\* saveProfiles: the whole file is rewritten; the write's error is dropped
SaveProfiles(m) ==
    IF diskOK
    THEN fileExists' = TRUE /\ file' \in SaveContents(m)
    ELSE UNCHANGED <<fileExists, file>>

(***************************************************************************)
(* The store harness: saveProfiles and loadProfiles on drawn inputs.       *)
(***************************************************************************)
StoreNames == {"", "a", "b", "#a", "a|"}
StoreProxies == {"none", "p|q"}
StoreTypes == {"http"}
StoreFlags == {"", "-x -y"}

StoreProfileSet ==
    { Profile(n, p, t, f) : n \in StoreNames, p \in StoreProxies,
                            t \in StoreTypes, f \in StoreFlags }

\* mappings as the program keeps them: each profile under its own name
StoreMaps ==
    { m \in UNION { [S -> StoreProfileSet] :
                        S \in { T \in SUBSET StoreNames : Cardinality(T) <= MaxStoreProfiles } } :
        \A n \in DOMAIN m : m[n].Name = n }

StoreLineSet ==
    { "", "#c", "#a|p|http|-x", "a", "a|p", "a|p|http", "a|none|none|-x",
      "b|p|http|", "a|q|socks5|-y", "a|p|http|-x|extra", "|p|t|f" }

RECURSIVE LinesUpTo(_)
LinesUpTo(n) ==
    IF n = 0 THEN {<<>>}
    ELSE LinesUpTo(n - 1) \cup
         { Append(ls, l) : ls \in { x \in LinesUpTo(n - 1) : Len(x) = n - 1 }, l \in StoreLineSet }

\* store files: up to MaxLines lines, each ended by a newline or the last not
StoreFiles ==
    { Join(ls, "\n") : ls \in LinesUpTo(MaxLines) } \cup
    { Join(ls, "\n") \o "\n" : ls \in LinesUpTo(MaxLines) \ {<<>>} }

IdleUI ==
    /\ currentView = "main" /\ message = "" /\ selected = ""
    /\ profileName = "" /\ profileProxy = "" /\ profileType = "" /\ profileFlags = ""
    /\ profileList = {}
    /\ key = "" /\ nkeys = 0

IdleSpawn == cmdArgs = <<>> /\ attempts = <<>> /\ started = <<>>

\* a manager whose browser has not been looked for
IdleBrowser == chromePath = "" /\ err = ""

StoreInit ==
    /\ cmd = "" /\ cmdProfile = "" /\ exitCode = -1 /\ stdout = ""
    /\ goos = "linux" /\ build = "main"
    /\ binaries = {} /\ IdleBrowser
    /\ IdleUI /\ IdleSpawn
    /\ dirs = [d \in {} |-> [e \in {} |-> ""]]
    /\ diskOK \in BOOLEAN
    /\ \/ /\ pc = "mem"          \* a mapping in memory, about to be saved
          /\ profiles \in StoreMaps
          /\ fileExists \in BOOLEAN /\ file = ""
          /\ saved = NoProfiles /\ cleanRun = NoClean /\ flow = ""
       \/ /\ pc = "fresh"        \* a new manager, about to load
          /\ profiles = NoProfiles
          /\ \/ fileExists = FALSE /\ file = ""
             \/ fileExists = TRUE /\ file \in StoreFiles
          /\ saved = NoProfiles /\ cleanRun = NoClean /\ flow = ""

\* cm.saveProfiles()
StoreSave ==
    /\ pc = "mem"
    /\ SaveProfiles(profiles)
    /\ saved' = profiles
    /\ pc' = "saved"
    /\ UNCHANGED <<argVars, exitCode, stdout, profiles, uiVars, bufVars, dirs,
                   spawnVars, key, nkeys, cleanRun, flow>>

\* cm.loadProfiles() of a new manager (an empty mapping) after a save
StoreReload ==
    /\ pc = "saved"
    /\ LoadProfiles(NoProfiles)
    /\ pc' = "reloaded"
    /\ UNCHANGED <<argVars, exitCode, stdout, currentView, message, selected, bufVars,
                   dirs, spawnVars, key, nkeys, histVars>>

\* cm.loadProfiles() of a new manager on the drawn file
StoreLoad ==
    /\ pc = "fresh"
    /\ LoadProfiles(profiles)
    /\ pc' = "loaded"
    /\ UNCHANGED <<argVars, exitCode, stdout, currentView, message, selected, bufVars,
                   dirs, spawnVars, key, nkeys, histVars>>

StoreNext == StoreSave \/ StoreReload \/ StoreLoad

SpecStore == StoreInit /\ [][StoreNext]_vars

(***************************************************************************)
(* Paths and the file system below the profile directory.                  *)
(***************************************************************************)
HomeDir == "/home/u"

\* cm.profileDir of initialModel
ProfileDir == HomeDir \o "/.chrome_profiles"

\* filepath.Clean on the elements of a rooted path: empty and "." elements
\* are dropped, ".." drops the element before it
RECURSIVE CleanElems(_, _)
CleanElems(stack, elems) ==
    IF Len(elems) = 0 THEN stack
    ELSE LET e == elems[1]
             s1 == IF e = "" \/ e = "." THEN stack
                   ELSE IF e = ".." THEN (IF Len(stack) = 0 THEN stack
                                          ELSE SubSeq(stack, 1, Len(stack) - 1))
                   ELSE Append(stack, e)
         IN  CleanElems(s1, Tail(elems))

\* filepath.Join(dir, name) for a rooted dir
PathJoin(dir, name) ==
    "/" \o Join(CleanElems(<<>>, Split(dir \o "/" \o name, "/")), "/")

\* a directory: its entries and their contents
DirNode(entries) == [isDir |-> TRUE, data |-> "", entries |-> entries]

\* a regular file
FileNode(data) == [isDir |-> FALSE, data |-> data, entries |-> [e \in {} |-> ""]]

NoEntries == [e \in {} |-> ""]

NoDirs == [d \in {} |-> DirNode(NoEntries)]

\* the name below the profile directory a path denotes, "" for the profile
\* directory itself
ChildOf(path) ==
    IF path = ProfileDir THEN ""
    ELSE SubSeq(path, Len(ProfileDir) + 2, Len(path))

\* prefsData of launchBrowser
PrefsData == "{\"browser\":{\"enabled_labs_experiments\":[\"ignore-gpu-blocklist@1\"]},\"distribution\":{\"suppress_first_run_bubble\":true,\"suppress_api_keys_warning\":true}}"

\* faulty variant: "Local State" is written at every launch
EnsureProfileDirAlways(d, path) ==
    LET c == ChildOf(path)
        old == IF c \in DOMAIN d THEN d[c].entries ELSE NoEntries
    IN  IF path = ProfileDir
        THEN [n \in DOMAIN d \cup {"Local State"} |->
                 IF n = "Local State" THEN FileNode(PrefsData) ELSE d[n]]
        ELSE [n \in DOMAIN d \cup {c} |->
                 IF n = c
                 THEN DirNode([e \in DOMAIN old \cup {"Local State"} |->
                                  IF e = "Local State" THEN PrefsData ELSE old[e]])
                 ELSE d[n]]

\* os.MkdirAll(profilePath) followed by the write of "Local State" when
\* os.Stat reports it missing; both errors are dropped
EnsureProfileDir(d, path) ==
    LET c == ChildOf(path)
    IN  IF path = ProfileDir
        THEN \* the profile directory itself: it exists, the file goes beside profiles.conf
             IF "Local State" \notin DOMAIN d /\ diskOK
             THEN [n \in DOMAIN d \cup {"Local State"} |->
                      IF n = "Local State" THEN FileNode(PrefsData) ELSE d[n]]
             ELSE d
        ELSE IF c \notin DOMAIN d
        THEN IF diskOK
             THEN [n \in DOMAIN d \cup {c} |->
                      IF n = c THEN DirNode([e \in {"Local State"} |-> PrefsData]) ELSE d[n]]
             ELSE d
        ELSE IF d[c].isDir /\ "Local State" \notin DOMAIN d[c].entries /\ diskOK
        THEN [d EXCEPT ![c] =
                 DirNode([e \in DOMAIN d[c].entries \cup {"Local State"} |->
                            IF e = "Local State" THEN PrefsData ELSE d[c].entries[e]])]
        ELSE d

(***************************************************************************)
(* launchBrowser: the argument list.                                       *)
(***************************************************************************)
NonEmpty(s) == s # ""

\* faulty variant: the scheme prefix is added for every proxy type
ProxyArgsAlwaysHttp(profile) ==
    IF profile.Proxy # "none"
    THEN << "--proxy-server=" \o "http://" \o profile.Proxy >>
    ELSE <<>>

\* the proxy argument: none for proxy "none", the http:// prefix for type "http" only
ProxyArgs(profile) ==
    IF profile.Proxy # "none"
    THEN << "--proxy-server=" \o (IF profile.ProxyType = "http" THEN "http://" ELSE "")
                              \o profile.Proxy >>
    ELSE <<>>

\* the user's flags: split on single spaces, empty tokens dropped
FlagArgs(flags) ==
    IF flags # "" THEN SelectSeq(Split(flags, " "), NonEmpty) ELSE <<>>

\* standardFlags of src/unnamed/part_000
StandardFlagsPart000 ==
    << "--disable-logging", "--disable-breakpad", "--disable-infobars",
       "--disable-notifications", "--no-default-browser-check", "--silent-launch",
       "--disable-gpu", "--disable-gpu-compositing", "--disable-gpu-sandbox",
       "--disable-gpu-driver-bug-workarounds",
       "--disable-features=UseChromeOSDirectVideoDecoder",
       "--disable-accelerated-2d-canvas", "--disable-accelerated-video-decode",
       "--disable-accelerated-video-encode", "--disable-webgl",
       "--disable-threaded-animation", "--disable-webgl-image-chromium",
       "--force-dark-mode" >>

\* standardFlags of src/main.go: one more flag
StandardFlagsMain == Append(StandardFlagsPart000, "--ignore-certificate-errors")

StandardFlags == IF build = "main" THEN StandardFlagsMain ELSE StandardFlagsPart000

\* faulty variant: the user's flags come after the suppression tail
CmdArgsFlagsLast(profile, profilePath) ==
    << "--user-data-dir=" \o profilePath, "--new-window", "about:blank" >>
        \o ProxyArgs(profile) \o StandardFlags \o FlagArgs(profile.Flags)

\* cmdArgs of launchBrowser
CmdArgs(profile, profilePath) ==
    << "--user-data-dir=" \o profilePath, "--new-window", "about:blank" >>
        \o ProxyArgs(profile) \o FlagArgs(profile.Flags) \o StandardFlags

(***************************************************************************)
(* launchBrowser: the spawn chain.  works is the set of mechanisms whose   *)
(* cmd.Start() succeeds, tmpOK whether a file can be written in TempDir.   *)
(***************************************************************************)
Mechanisms == {"direct", "script", "open", "nohup", "xdg-open"}

\* faulty variant: every mechanism of the branch is tried, whatever started
SpawnAttemptsAll(works, tmpOK) ==
    IF build = "part_000" \/ goos = "darwin" THEN <<"direct", "script", "open">>
    ELSE IF goos = "linux" THEN <<"direct", "nohup", "xdg-open">>
    ELSE <<"direct">>

\* the mechanisms tried, in order
SpawnAttempts(works, tmpOK) ==
    IF build = "part_000" \/ goos = "darwin"
    THEN IF "direct" \in works THEN <<"direct">>
         ELSE IF ~tmpOK THEN <<"direct">>
         ELSE IF "script" \in works THEN <<"direct", "script">>
         ELSE <<"direct", "script", "open">>
    ELSE IF goos = "linux"
    THEN IF "direct" \in works THEN <<"direct">>
         ELSE IF "nohup" \in works THEN <<"direct", "nohup">>
         ELSE IF ~tmpOK THEN <<"direct", "nohup">>
         ELSE <<"direct", "nohup", "xdg-open">>
    ELSE <<"direct">>

\* faulty variant: the error reported is the first mechanism's
SpawnResultFirstError(profile, works, tmpOK) ==
    IF \E i \in 1..Len(SpawnAttempts(works, tmpOK)) : SpawnAttempts(works, tmpOK)[i] \in works
    THEN "Launched with profile: " \o profile.Name
    ELSE "Error launching browser: direct"

\* the string launchBrowser returns for a profile of the mapping
SpawnResult(profile, works, tmpOK) ==
    LET tried == SpawnAttempts(works, tmpOK)
        last == tried[Len(tried)]
    IN  IF (build = "part_000" \/ goos = "darwin") /\ "direct" \notin works /\ ~tmpOK
        THEN "Error creating launcher script: write"
        ELSE IF last \in works
        THEN "Launched with profile: " \o profile.Name
        ELSE "Error launching browser: " \o last

\* the string launchBrowser(name) returns
LaunchResult(name, works, tmpOK) ==
    IF name \notin DOMAIN profiles
    THEN "Profile '" \o name \o "' not found"
    ELSE SpawnResult(profiles[name], works, tmpOK)

\* faulty variant: the working directory is made before the name is looked up
LaunchPrepareAlways(name) ==
    IF name \notin DOMAIN profiles
    THEN /\ dirs' = EnsureProfileDir(dirs, PathJoin(ProfileDir, name))
         /\ UNCHANGED cmdArgs
    ELSE LET path == PathJoin(ProfileDir, profiles[name].Name)
         IN  /\ dirs' = EnsureProfileDir(dirs, path)
             /\ cmdArgs' = CmdArgs(profiles[name], path)

\* what launchBrowser(name) does before it spawns: the working directory, its
\* seed file and the argument list
LaunchPrepare(name) ==
    IF name \notin DOMAIN profiles
    THEN UNCHANGED <<dirs, cmdArgs>>
    ELSE LET path == PathJoin(ProfileDir, profiles[name].Name)
         IN  /\ dirs' = EnsureProfileDir(dirs, path)
             /\ cmdArgs' = CmdArgs(profiles[name], path)

\* the spawn attempts of launchBrowser(name): none for an unknown profile
LaunchAttempts(name, works, tmpOK) ==
    IF name \notin DOMAIN profiles THEN <<>> ELSE SpawnAttempts(works, tmpOK)

\* for each mechanism tried, whether it started
SpawnStarted(works, tmpOK) ==
    [i \in 1..Len(SpawnAttempts(works, tmpOK)) |-> SpawnAttempts(works, tmpOK)[i] \in works]

\* the outcomes of the spawn attempts of launchBrowser(name)
LaunchStarted(name, works, tmpOK) ==
    IF name \notin DOMAIN profiles THEN <<>> ELSE SpawnStarted(works, tmpOK)

(***************************************************************************)
(* Finding the browser: detectPlatform, and the lines of initialModel that *)
(* do it in place.  os.Stat(p) succeeds exactly when p is in the set of    *)
(* paths handed in.                                                        *)
(***************************************************************************)
ChromiumApp == "/Applications/Chromium.app/Contents/MacOS/Chromium"
ChromeApp == "/Applications/Google Chrome.app/Contents/MacOS/Google Chrome"

\* os.Getenv of the three variables detectPlatform reads
Getenv(name) ==
    CASE name = "ProgramFiles" -> "C:\\Program Files"
      [] name = "ProgramFiles(x86)" -> "C:\\Program Files (x86)"
      [] name = "LocalAppData" -> "C:\\Users\\u\\AppData\\Local"
      [] OTHER -> ""

\* filepath.Join on Windows, of elements that are clean already
WinJoin(elems) == Join(elems, "\\")

\* the paths detectPlatform looks at on each platform, in its order
ChromePaths(os) ==
    CASE os = "darwin" -> <<ChromiumApp, ChromeApp>>
      [] os = "windows" ->
            << WinJoin(<<Getenv("ProgramFiles"), "Chromium", "Application", "chrome.exe">>),
               WinJoin(<<Getenv("ProgramFiles(x86)"), "Chromium", "Application", "chrome.exe">>),
               WinJoin(<<Getenv("ProgramFiles"), "Google", "Chrome", "Application", "chrome.exe">>),
               WinJoin(<<Getenv("ProgramFiles(x86)"), "Google", "Chrome", "Application", "chrome.exe">>),
               WinJoin(<<Getenv("LocalAppData"), "Chromium", "Application", "chrome.exe">>),
               WinJoin(<<Getenv("LocalAppData"), "Google", "Chrome", "Application", "chrome.exe">>) >>
      [] os = "linux" ->
            << "/usr/bin/chromium", "/usr/bin/chromium-browser", "/usr/bin/google-chrome",
               "/usr/bin/google-chrome-stable", "/snap/bin/chromium" >>
      [] OTHER -> <<>>

\* the loop over chromePaths: the first path os.Stat finds, or the path the
\* manager had
RECURSIVE FirstFound(_, _, _)
FirstFound(paths, bins, had) ==
    IF paths = <<>> THEN had
    ELSE IF Head(paths) \in bins THEN Head(paths)
    ELSE FirstFound(Tail(paths), bins, had)

\* the two lines that look for the macOS applications: Chromium, and Chrome
\* when Chromium is not there
FindBrowser(bins) == IF ChromiumApp \in bins THEN ChromiumApp ELSE ChromeApp

\* cm.chromePath after the switch of detectPlatform
SwitchPath(os, bins, had) ==
    IF os = "darwin" THEN FindBrowser(bins)
    ELSE FirstFound(ChromePaths(os), bins, had)

NotFoundError == "Could not find Chrome or Chromium browser. Please specify path manually"

\* the path set when the switch left cm.chromePath empty
GuessPath(os) ==
    IF os = "windows"
    THEN WinJoin(<<Getenv("ProgramFiles"), "Google", "Chrome", "Application", "chrome.exe">>)
    ELSE "/usr/bin/google-chrome"

\* cm.detectPlatform()
DetectPlatform ==
    LET found == SwitchPath(goos, binaries, chromePath)
    IN  /\ chromePath' = IF found = "" THEN GuessPath(goos) ELSE found
        /\ err' = IF found = "" THEN NotFoundError ELSE err

(***************************************************************************)
(* The discovery harness: detectPlatform of a new manager on drawn         *)
(* platforms and drawn sets of installed browsers.                         *)
(***************************************************************************)
Platforms == {"darwin", "windows", "linux", "freebsd"}

DetectInit ==
    /\ pc = "detect"
    /\ cmd = "" /\ cmdProfile = "" /\ exitCode = -1 /\ stdout = ""
    /\ goos \in Platforms /\ build = "main"
    /\ binaries \in SUBSET { ChromePaths(goos)[i] : i \in DOMAIN ChromePaths(goos) }
    /\ IdleBrowser
    /\ diskOK = TRUE
    /\ profiles = NoProfiles
    /\ IdleUI /\ IdleSpawn
    /\ fileExists = FALSE /\ file = ""
    /\ dirs = NoDirs
    /\ saved = NoProfiles /\ cleanRun = NoClean /\ flow = ""

DetectCall ==
    /\ pc = "detect"
    /\ DetectPlatform
    /\ pc' = "detected"
    /\ UNCHANGED <<envVars, exitCode, stdout, profiles, uiVars, bufVars, fsVars,
                   spawnVars, key, nkeys, histVars>>

DetectNext == DetectCall

SpecDetect == DetectInit /\ [][DetectNext]_vars

(***************************************************************************)
(* The launch harness: launchBrowser on drawn profiles and platforms.      *)
(***************************************************************************)
LaunchNames == {"a", ""}
LaunchProxies == {"none", "127.0.0.1:8080", ""}
LaunchTypes == {"none", "http", "socks5"}
LaunchFlags == {"", "--a --b", " --a  --b ", "--proxy-server=x", " "}

LaunchProfileSet ==
    { Profile(n, p, t, f) : n \in LaunchNames, p \in LaunchProxies,
                            t \in LaunchTypes, f \in LaunchFlags }

LaunchInit ==
    /\ pc = "launch"
    /\ cmd = "" /\ exitCode = -1 /\ stdout = ""
    /\ goos \in {"darwin", "linux", "windows"}
    /\ build \in {"main", "part_000"}
    /\ \E p \in LaunchProfileSet : profiles = [n \in {p.Name} |-> p]
    /\ cmdProfile \in DOMAIN profiles \cup {"zz"}
    /\ binaries = {} /\ IdleBrowser
    /\ IdleUI /\ IdleSpawn
    /\ fileExists = TRUE /\ file = ""
    /\ dirs \in { NoDirs,
                  [d \in {"a"} |-> DirNode([e \in {"Local State"} |-> "{}"])],
                  [d \in {"a"} |-> DirNode([e \in {"Cache"} |-> "x"])] }
    /\ diskOK \in BOOLEAN
    /\ saved = NoProfiles /\ cleanRun = NoClean /\ flow = ""

\* message := cm.launchBrowser(cmdProfile)
LaunchCall ==
    /\ pc = "launch"
    /\ LaunchPrepare(cmdProfile)
    /\ \E works \in SUBSET Mechanisms, tmpOK \in BOOLEAN :
          /\ message' = LaunchResult(cmdProfile, works, tmpOK)
          /\ attempts' = LaunchAttempts(cmdProfile, works, tmpOK)
          /\ started' = LaunchStarted(cmdProfile, works, tmpOK)
    /\ UNCHANGED <<argVars, procVars, profiles, currentView, selected, profileList,
                   bufVars, fileExists, file, key, nkeys, histVars>>

LaunchNext == LaunchCall

SpecLaunch == LaunchInit /\ [][LaunchNext]_vars

(***************************************************************************)
(* Cleaning a profile's working directory (the select_clean view and the   *)
(* clean subcommand run the same steps).                                   *)
(***************************************************************************)
\* the bytes file names are made of here, in byte order
ByteOrder == " #-.0123456789ABCDEFGHIJKLMNOPQRSTUVWXYZ_abcdefghijklmnopqrstuvwxyz|"

\* byte-wise a < b
RECURSIVE StrLess(_, _)
StrLess(a, b) ==
    IF b = "" THEN FALSE
    ELSE IF a = "" THEN TRUE
    ELSE IF Char(a, 1) = Char(b, 1) THEN StrLess(Tail(a), Tail(b))
    ELSE IndexByte(ByteOrder, Char(a, 1)) < IndexByte(ByteOrder, Char(b, 1))

\* ioutil.ReadDir: the entries sorted by file name
SortedNames(S) ==
    CHOOSE o \in Orders(S) : \A i, j \in 1..Cardinality(S) : i < j => StrLess(o[i], o[j])

\* os.Stat(profilePath) finds something
PathExists(path) ==
    \/ path = ProfileDir
    \/ ChildOf(path) \in DOMAIN dirs
    \/ (ChildOf(path) = "profiles.conf" /\ fileExists)

\* profilePath is a directory
PathIsDir(path) ==
    \/ path = ProfileDir
    \/ (ChildOf(path) \in DOMAIN dirs /\ dirs[ChildOf(path)].isDir)

\* the names ioutil.ReadDir(profilePath) returns
DirListing(path) ==
    IF path = ProfileDir
    THEN SortedNames(DOMAIN dirs \cup (IF fileExists THEN {"profiles.conf"} ELSE {}))
    ELSE SortedNames(DOMAIN dirs[ChildOf(path)].entries)

\* how the steps end: readOK is whether ReadDir succeeds on a directory, k how
\* many entries os.RemoveAll removes before one fails (all of them: none fails)
CleanOutcome(path, readOK, k) ==
    IF ~PathExists(path) THEN "missing"
    ELSE IF ~PathIsDir(path) \/ ~readOK THEN "readerr"
    ELSE IF k < Len(DirListing(path)) THEN "rmerr"
    ELSE "ok"

\* faulty variant: a missing directory is made
CleanedDirsMkdir(path, readOK, k) ==
    IF CleanOutcome(path, readOK, k) = "missing"
    THEN [n \in DOMAIN dirs \cup {ChildOf(path)} |->
             IF n = ChildOf(path) THEN DirNode(NoEntries) ELSE dirs[n]]
    ELSE dirs

\* faulty variant: the directory itself is removed
CleanedDirsWhole(path, readOK, k) ==
    IF CleanOutcome(path, readOK, k) \in {"missing", "readerr"} THEN dirs
    ELSE [n \in DOMAIN dirs \ {ChildOf(path)} |-> dirs[n]]

\* faulty variant: the loop goes on after the entry that could not be removed
CleanedDirsGoesOn(path, readOK, k) ==
    IF CleanOutcome(path, readOK, k) \in {"missing", "readerr"} THEN dirs
    ELSE LET gone == { DirListing(path)[i] : i \in 1..Len(DirListing(path)) } \
                         { DirListing(path)[i] : i \in {k + 1} \cap 1..Len(DirListing(path)) }
         IN  IF path = ProfileDir
             THEN [n \in DOMAIN dirs \ gone |-> dirs[n]]
             ELSE [dirs EXCEPT ![ChildOf(path)] =
                      DirNode([e \in DOMAIN dirs[ChildOf(path)].entries \ gone |->
                                  dirs[ChildOf(path)].entries[e]])]

\* the directories after the removal loop took the first k entries
CleanedDirs(path, readOK, k) ==
    IF CleanOutcome(path, readOK, k) \in {"missing", "readerr"} THEN dirs
    ELSE LET gone == { DirListing(path)[i] : i \in 1..k }
         IN  IF path = ProfileDir
             THEN [n \in DOMAIN dirs \ gone |-> dirs[n]]
             ELSE [dirs EXCEPT ![ChildOf(path)] =
                      DirNode([e \in DOMAIN dirs[ChildOf(path)].entries \ gone |->
                                  dirs[ChildOf(path)].entries[e]])]

\* whether the removal loop took the store file away
CleanedStore(path, readOK, k) ==
    /\ CleanOutcome(path, readOK, k) \in {"rmerr", "ok"}
    /\ path = ProfileDir
    /\ \E i \in 1..k : DirListing(path)[i] = "profiles.conf"

\* the file system after the steps
CleanFiles(path, readOK, k) ==
    /\ dirs' = CleanedDirs(path, readOK, k)
    /\ fileExists' = (fileExists /\ ~CleanedStore(path, readOK, k))
    /\ file' = IF CleanedStore(path, readOK, k) THEN "" ELSE file

\* the choices of k the directory allows
CleanChoices(path) ==
    IF PathExists(path) /\ PathIsDir(path) THEN 0..Len(DirListing(path)) ELSE {0}

\* the text reported for an outcome (the error's own text is "read", "remove")
CleanText(name, outcome) ==
    CASE outcome = "missing" -> "Profile directory does not exist"
      [] outcome = "readerr" -> "Error reading directory: read"
      [] outcome = "rmerr" -> "Error cleaning profile: remove"
      [] OTHER -> "Profile '" \o name \o "' completely cleared and reset"

(***************************************************************************)
(* The process: main, initialModel and the subcommands.                    *)
(***************************************************************************)
\* the store files a process may start on ("none": there is no file)
InitStores ==
    { "none", "b|none|none|\nbb|p|http|-x\n", "#c\nb|none|none|\n", ".|none|none|\n" }

\* the directories a process may start on
InitDirs ==
    { [d \in {"b"} |-> DirNode([e \in {"Cache", "Local State"} |->
                                    IF e = "Cache" THEN "x" ELSE "{}"])] }

Init ==
    /\ pc = "boot" /\ exitCode = -1 /\ stdout = ""
    /\ cmd \in {"", "launch", "clean", "list", "version", "help"}
    /\ cmdProfile \in (CASE cmd = "launch" -> {"b", "zz"}
                          [] cmd = "clean" -> {"b", "zz", "."}
                          [] OTHER -> {""})
    /\ goos = "linux" /\ build = "main"
    /\ diskOK \in BOOLEAN
    /\ binaries = {"/usr/bin/chromium"} /\ IdleBrowser
    /\ profiles = NoProfiles
    /\ IdleUI /\ IdleSpawn
    /\ \E st \in InitStores :
          /\ fileExists = (st # "none")
          /\ file = IF st = "none" THEN "" ELSE st
    /\ dirs \in InitDirs
    /\ saved = NoProfiles /\ cleanRun = NoClean /\ flow = ""

\* parseCommandLine on "help": printHelp and os.Exit(0), before any model
MainHelp ==
    /\ pc = "boot" /\ cmd = "help"
    /\ pc' = "exit" /\ exitCode' = 0
    /\ stdout' = "Launchium - Chromium Profile Manager"
    /\ UNCHANGED <<argVars, profiles, uiVars, bufVars, fsVars, spawnVars, key, nkeys, histVars>>

\* initialModel: the browser is looked for, the profile directory is made, the
\* store is loaded, the view is main
Boot ==
    /\ pc = "boot" /\ cmd # "help"
    /\ chromePath' = FindBrowser(binaries)
    /\ LoadProfiles(profiles)
    /\ currentView' = "main"
    /\ pc' = "run"
    /\ UNCHANGED <<envVars, err, exitCode, stdout, message, selected, bufVars, dirs,
                   spawnVars, key, nkeys, histVars>>

\* main, case "launch": the result is printed, the exit status is 0
MainLaunch ==
    /\ pc = "run" /\ cmd = "launch"
    /\ LaunchPrepare(cmdProfile)
    /\ \E works \in SUBSET Mechanisms, tmpOK \in BOOLEAN :
          /\ stdout' = LaunchResult(cmdProfile, works, tmpOK)
          /\ attempts' = LaunchAttempts(cmdProfile, works, tmpOK)
          /\ started' = LaunchStarted(cmdProfile, works, tmpOK)
    /\ pc' = "exit" /\ exitCode' = 0
    /\ UNCHANGED <<argVars, profiles, uiVars, bufVars, fileExists, file, key, nkeys, histVars>>

\* main, case "clean": os.Exit(1) on a removal error, 0 otherwise
MainClean ==
    /\ pc = "run" /\ cmd = "clean"
    /\ LET path == PathJoin(ProfileDir, cmdProfile)
       IN  \E readOK \in BOOLEAN, k \in CleanChoices(path) :
              LET outcome == CleanOutcome(path, readOK, k)
              IN  /\ CleanFiles(path, readOK, k)
                  /\ cleanRun' = CleanRun(path, readOK, k)
                  /\ stdout' = IF outcome = "missing"
                               THEN "Error: Profile directory does not exist"
                               ELSE CleanText(cmdProfile, outcome)
                  /\ exitCode' = IF outcome = "rmerr" THEN 1 ELSE 0
    /\ pc' = "exit"
    /\ UNCHANGED <<argVars, profiles, uiVars, bufVars, spawnVars, key, nkeys, saved, flow>>

\* main, cases "list" and "version"
MainListVersion ==
    /\ pc = "run" /\ cmd \in {"list", "version"}
    /\ stdout' = IF cmd = "list" THEN "Available profiles:" ELSE "Launchium version 0.1.0"
    /\ pc' = "exit" /\ exitCode' = 0
    /\ UNCHANGED <<argVars, profiles, uiVars, bufVars, fsVars, spawnVars, key, nkeys, histVars>>

(***************************************************************************)
(* Update: one action per view and key.  The lists' cursors are not kept:  *)
(* the item under the cursor is any item of the list.                      *)
(***************************************************************************)
Views ==
    { "main", "select_profile", "manage", "select_edit", "select_delete",
      "select_clean", "confirm_delete", "add_profile", "edit_profile",
      "edit_name", "edit_proxy", "edit_type", "edit_flags" }

ListViews == {"select_profile", "select_edit", "select_delete", "select_clean"}
EditorViews == {"edit_profile", "add_profile"}
FieldViews == {"edit_name", "edit_proxy", "edit_type", "edit_flags"}

\* the UTF-8 encoding of U+00E9 is the two bytes 0xC3 0xA9; the two bytes are
\* written "^" and "~" here
EAcute == "^~"

\* msg.String() of the runes typed into a field editor
TextRunes == {"b", EAcute}

\* a key that is neither a rune nor handled anywhere
OtherKeys == {"up"}

\* the program runs its interactive loop
Interactive == pc = "run" /\ cmd = ""

\* the key messages one run delivers
MaxKeys == 8

\* Update receives one more tea.KeyMsg
KeyEvent ==
    /\ Interactive
    /\ nkeys < MaxKeys
    /\ nkeys' = nkeys + 1

\* tea.KeyCtrlC: tea.Quit from any view
KeyCtrlC ==
    /\ KeyEvent
    /\ key' = "ctrl+c"
    /\ pc' = "exit" /\ exitCode' = 0
    /\ UNCHANGED <<argVars, stdout, profiles, uiVars, bufVars, fsVars, spawnVars, histVars>>

\* faulty variant: Esc commits the edit buffer and keeps the message
KeyEscCommits ==
    /\ KeyEvent
    /\ currentView # "main"
    /\ key' = "esc"
    /\ currentView' = "main"
    /\ profiles' = MapPut(profiles, profileName,
                          Profile(profileName, profileProxy, profileType, profileFlags))
    /\ flow' = ""
    /\ UNCHANGED <<argVars, procVars, message, selected, profileList, bufVars,
                   fsVars, spawnVars, saved, cleanRun>>

\* tea.KeyEsc outside main: back to main, the message cleared
KeyEsc ==
    /\ KeyEvent
    /\ currentView # "main"
    /\ key' = "esc"
    /\ currentView' = "main"
    /\ message' = ""
    /\ flow' = ""
    /\ UNCHANGED <<argVars, procVars, profiles, selected, profileList, bufVars,
                   fsVars, spawnVars, saved, cleanRun>>

\* main, Enter on an item of the main menu
MainEnter ==
    /\ KeyEvent
    /\ currentView = "main"
    /\ key' = "enter"
    /\ \E title \in {"Launch Browser", "Manage Profiles", "Clean Profile", "Quit"} :
          /\ currentView' = CASE title = "Launch Browser" -> "select_profile"
                              [] title = "Manage Profiles" -> "manage"
                              [] title = "Clean Profile" -> "select_clean"
                              [] OTHER -> currentView
          /\ profileList' = IF title \in {"Launch Browser", "Clean Profile"}
                            THEN DOMAIN profiles ELSE profileList
          /\ pc' = IF title = "Quit" THEN "exit" ELSE pc
          /\ exitCode' = IF title = "Quit" THEN 0 ELSE exitCode
    /\ UNCHANGED <<argVars, stdout, profiles, message, selected, bufVars, fsVars,
                   spawnVars, histVars>>

\* select_profile, Enter: launch the chosen profile, show the result, main
SelectProfileEnter ==
    /\ KeyEvent
    /\ currentView = "select_profile"
    /\ key' = "enter"
    /\ \E title \in profileList :
          /\ LaunchPrepare(title)
          /\ \E works \in SUBSET Mechanisms, tmpOK \in BOOLEAN :
                /\ message' = LaunchResult(title, works, tmpOK)
                /\ attempts' = LaunchAttempts(title, works, tmpOK)
                /\ started' = LaunchStarted(title, works, tmpOK)
    /\ currentView' = "main"
    /\ UNCHANGED <<argVars, procVars, profiles, selected, profileList, bufVars,
                   fileExists, file, histVars>>

\* faulty variant: Add New Profile keeps what the buffer held
ManageEnterKeepBuffer ==
    /\ KeyEvent
    /\ currentView = "manage"
    /\ key' = "enter"
    /\ \E title \in {"Add New Profile", "Edit Profile", "Delete Profile"} :
          /\ currentView' = CASE title = "Add New Profile" -> "add_profile"
                              [] title = "Edit Profile" -> "select_edit"
                              [] OTHER -> "select_delete"
          /\ profileList' = IF title = "Add New Profile" THEN profileList ELSE DOMAIN profiles
    /\ flow' = IF currentView' = "add_profile" THEN "add" ELSE flow
    /\ UNCHANGED <<argVars, procVars, profiles, message, selected, bufVars, fsVars,
                   spawnVars, saved, cleanRun>>

\* manage, Enter on an item: Add New Profile resets the buffer (cm.selected
\* is left as it is)
ManageEnter ==
    /\ KeyEvent
    /\ currentView = "manage"
    /\ key' = "enter"
    /\ \E title \in {"Add New Profile", "Edit Profile", "Delete Profile"} :
          /\ currentView' = CASE title = "Add New Profile" -> "add_profile"
                              [] title = "Edit Profile" -> "select_edit"
                              [] OTHER -> "select_delete"
          /\ profileName' = IF title = "Add New Profile" THEN "" ELSE profileName
          /\ profileProxy' = IF title = "Add New Profile" THEN "none" ELSE profileProxy
          /\ profileType' = IF title = "Add New Profile" THEN "none" ELSE profileType
          /\ profileFlags' = IF title = "Add New Profile" THEN DefaultFlags ELSE profileFlags
          /\ profileList' = IF title = "Add New Profile" THEN profileList ELSE DOMAIN profiles
    /\ flow' = IF currentView' = "add_profile" THEN "add" ELSE flow
    /\ UNCHANGED <<argVars, procVars, profiles, message, selected, fsVars,
                   spawnVars, saved, cleanRun>>

\* faulty variant: the zero Profile for every key
LookupZero(title) == Profile("", "", "", "")

\* cm.profiles[title]: the zero Profile for a missing key
Lookup(title) ==
    IF title \in DOMAIN profiles THEN profiles[title] ELSE Profile("", "", "", "")

\* select_edit, Enter: the chosen profile is copied into the buffer
SelectEditEnter ==
    /\ KeyEvent
    /\ currentView = "select_edit"
    /\ key' = "enter"
    /\ \E title \in profileList :
          /\ profileName' = Lookup(title).Name
          /\ profileProxy' = Lookup(title).Proxy
          /\ profileType' = Lookup(title).ProxyType
          /\ profileFlags' = Lookup(title).Flags
          /\ selected' = title
    /\ currentView' = "edit_profile"
    /\ flow' = "edit"
    /\ UNCHANGED <<argVars, procVars, profiles, message, profileList, fsVars,
                   spawnVars, saved, cleanRun>>

\* select_delete, Enter: the chosen name is the pending target
SelectDeleteEnter ==
    /\ KeyEvent
    /\ currentView = "select_delete"
    /\ key' = "enter"
    /\ \E title \in profileList : selected' = title
    /\ currentView' = "confirm_delete"
    /\ UNCHANGED <<argVars, procVars, profiles, message, profileList, bufVars, fsVars,
                   spawnVars, histVars>>

\* faulty variant: 'y' forgets to delete
ConfirmDeleteYesKeep ==
    /\ KeyEvent
    /\ currentView = "confirm_delete"
    /\ key' \in {"y", "Y"}
    /\ profiles' = profiles
    /\ SaveProfiles(profiles')
    /\ message' = "Profile '" \o selected \o "' deleted"
    /\ currentView' = "main"
    /\ UNCHANGED <<argVars, procVars, selected, profileList, bufVars, dirs,
                   spawnVars, histVars>>

\* faulty variant: 'y' removes the profile's working directory too
ConfirmDeleteYesPurges ==
    /\ KeyEvent
    /\ currentView = "confirm_delete"
    /\ key' \in {"y", "Y"}
    /\ profiles' = MapDelete(profiles, selected)
    /\ SaveProfiles(profiles')
    /\ dirs' = [d \in DOMAIN dirs \ {selected} |-> dirs[d]]
    /\ message' = "Profile '" \o selected \o "' deleted"
    /\ currentView' = "main"
    /\ UNCHANGED <<argVars, procVars, selected, profileList, bufVars,
                   spawnVars, histVars>>

\* confirm_delete, 'y' or 'Y': delete, save, message, main
ConfirmDeleteYes ==
    /\ KeyEvent
    /\ currentView = "confirm_delete"
    /\ key' \in {"y", "Y"}
    /\ profiles' = MapDelete(profiles, selected)
    /\ SaveProfiles(profiles')
    /\ message' = "Profile '" \o selected \o "' deleted"
    /\ currentView' = "main"
    /\ UNCHANGED <<argVars, procVars, selected, profileList, bufVars, dirs,
                   spawnVars, histVars>>

\* faulty variant: 'n' deletes all the same
ConfirmDeleteNoDeletes ==
    /\ KeyEvent
    /\ currentView = "confirm_delete"
    /\ key' \in {"n", "N"}
    /\ profiles' = MapDelete(profiles, selected)
    /\ currentView' = "main"
    /\ UNCHANGED <<argVars, procVars, message, selected, profileList, bufVars,
                   fsVars, spawnVars, histVars>>

\* confirm_delete, 'n' or 'N': main
ConfirmDeleteNo ==
    /\ KeyEvent
    /\ currentView = "confirm_delete"
    /\ key' \in {"n", "N"}
    /\ currentView' = "main"
    /\ UNCHANGED <<argVars, procVars, profiles, message, selected, profileList, bufVars,
                   fsVars, spawnVars, histVars>>

\* select_clean, Enter: the chosen profile's directory is emptied, main
SelectCleanEnter ==
    /\ KeyEvent
    /\ currentView = "select_clean"
    /\ key' = "enter"
    /\ \E title \in profileList :
          LET path == PathJoin(ProfileDir, title)
          IN  \E readOK \in BOOLEAN, k \in CleanChoices(path) :
                 /\ CleanFiles(path, readOK, k)
                 /\ cleanRun' = CleanRun(path, readOK, k)
                 /\ message' = CleanText(title, CleanOutcome(path, readOK, k))
    /\ currentView' = "main"
    /\ UNCHANGED <<argVars, procVars, profiles, selected, profileList, bufVars,
                   spawnVars, saved, flow>>

\* faulty variant: '4' opens a view that does not exist
DigitViewUnknown(k) ==
    CASE k = "1" -> "edit_name"
      [] k = "2" -> "edit_proxy"
      [] k = "3" -> "edit_type"
      [] OTHER -> "edit_extra"

\* the field editor a digit key opens
DigitView(k) ==
    CASE k = "1" -> "edit_name"
      [] k = "2" -> "edit_proxy"
      [] k = "3" -> "edit_type"
      [] OTHER -> "edit_flags"

\* edit_profile or add_profile, '1'..'4': the field editor of that number
EditorDigit ==
    /\ KeyEvent
    /\ currentView \in EditorViews
    /\ key' \in {"1", "2", "3", "4"}
    /\ currentView' = DigitView(key')
    /\ UNCHANGED <<argVars, procVars, profiles, message, selected, profileList, bufVars,
                   fsVars, spawnVars, histVars>>

\* the Profile built from the edit buffer
BufferProfile == Profile(profileName, profileProxy, profileType, profileFlags)

\* faulty variant: only the empty name is refused
SaveRefusalEmptyOnly(m, oldName, name) ==
    IF name = "" THEN "Profile name is required" ELSE ""

\* the message of a refused save, "" when the save goes through
SaveRefusal(m, oldName, name) ==
    IF name = "" THEN "Profile name is required"
    ELSE IF oldName # name /\ name \in DOMAIN m
    THEN "Profile '" \o name \o "' already exists"
    ELSE ""

\* faulty variant: the old key stays
SavedMappingKeepOld(m, oldName, p) == MapPut(m, p.Name, p)

\* faulty variant: an edited profile stays under its old key
SavedMappingUnderOldKey(m, oldName, p) ==
    MapPut(m, IF oldName # "" THEN oldName ELSE p.Name, p)

\* the mapping after a save that goes through
SavedMapping(m, oldName, p) ==
    MapPut(IF oldName # p.Name THEN MapDelete(m, oldName) ELSE m, p.Name, p)

\* edit_profile or add_profile, Enter: validate; then delete the old key when
\* the name changed, put the buffer, save, message, main
EditorSave ==
    /\ KeyEvent
    /\ currentView \in EditorViews
    /\ key' = "enter"
    /\ LET refusal == SaveRefusal(profiles, selected, profileName)
       IN  IF refusal # ""
           THEN /\ message' = refusal
                /\ UNCHANGED <<profiles, currentView, fileExists, file>>
           ELSE /\ profiles' = SavedMapping(profiles, selected, BufferProfile)
                /\ SaveProfiles(profiles')
                /\ message' = "Profile '" \o profileName \o "' updated"
                /\ currentView' = "main"
    /\ flow' = IF currentView' = "main" THEN "" ELSE flow
    /\ UNCHANGED <<argVars, procVars, selected, profileList, bufVars, dirs,
                   spawnVars, saved, cleanRun>>

\* faulty variant: always back to add_profile
ReturnViewAlwaysAdd(sel) == "add_profile"

\* the editor a field editor goes back to
ReturnView(sel) == IF sel # "" THEN "edit_profile" ELSE "add_profile"

\* a field editor, Enter: back to edit_profile when cm.selected is set, to
\* add_profile otherwise
FieldEnter ==
    /\ KeyEvent
    /\ currentView \in FieldViews
    /\ key' = "enter"
    /\ currentView' = ReturnView(selected)
    /\ UNCHANGED <<argVars, procVars, profiles, message, selected, profileList, bufVars,
                   fsVars, spawnVars, histVars>>

\* s[:len(s)-1] when there is a byte to drop
DropLast(s) == IF Len(s) > 0 THEN SubSeq(s, 1, Len(s) - 1) ELSE s

\* the field after the text input of a field editor: changed in its own view
Edited(view, old, new) == IF currentView = view THEN new ELSE old

\* a field editor, Backspace: the last byte of the field goes
FieldBackspace ==
    /\ KeyEvent
    /\ currentView \in FieldViews
    /\ key' = "backspace"
    /\ profileName' = Edited("edit_name", profileName, DropLast(profileName))
    /\ profileProxy' = Edited("edit_proxy", profileProxy, DropLast(profileProxy))
    /\ profileType' = Edited("edit_type", profileType, DropLast(profileType))
    /\ profileFlags' = Edited("edit_flags", profileFlags, DropLast(profileFlags))
    /\ UNCHANGED <<argVars, procVars, profiles, uiVars, fsVars, spawnVars, histVars>>

\* a field editor, runes: appended to the field
FieldRune ==
    /\ KeyEvent
    /\ currentView \in FieldViews
    /\ \E r \in TextRunes :
          /\ key' = r
          /\ profileName' = Edited("edit_name", profileName, profileName \o r)
          /\ profileProxy' = Edited("edit_proxy", profileProxy, profileProxy \o r)
          /\ profileType' = Edited("edit_type", profileType, profileType \o r)
          /\ profileFlags' = Edited("edit_flags", profileFlags, profileFlags \o r)
    /\ UNCHANGED <<argVars, procVars, profiles, uiVars, fsVars, spawnVars, histVars>>

\* the keys a view has no case for (a list moves its cursor, nothing else)
Unhandled(view, k) ==
    \/ view = "main" /\ k # "enter"
    \/ view \in ListViews \cup {"manage"} /\ k \notin {"enter", "esc"}
    \/ view \in ListViews /\ k = "enter" /\ profileList = {}
    \/ view = "confirm_delete" /\ k \notin {"y", "Y", "n", "N", "esc"}
    \/ view \in EditorViews /\ k \notin {"1", "2", "3", "4", "enter", "esc"}
    \/ view \in FieldViews /\ k \in OtherKeys

\* the unhandled keys pressed
IgnoredKeys == {"up", "enter"}

KeyIgnored ==
    /\ KeyEvent
    /\ \E k \in IgnoredKeys : Unhandled(currentView, k) /\ key' = k
    /\ UNCHANGED <<argVars, procVars, profiles, uiVars, bufVars, fsVars, spawnVars, histVars>>

Next ==
    \/ MainHelp
    \/ Boot
    \/ MainLaunch
    \/ MainClean
    \/ MainListVersion
    \/ KeyCtrlC
    \/ KeyEsc
    \/ MainEnter
    \/ SelectProfileEnter
    \/ ManageEnter
    \/ SelectEditEnter
    \/ SelectDeleteEnter
    \/ ConfirmDeleteYes
    \/ ConfirmDeleteNo
    \/ SelectCleanEnter
    \/ EditorDigit
    \/ EditorSave
    \/ FieldEnter
    \/ FieldBackspace
    \/ FieldRune
    \/ KeyIgnored

Spec == Init /\ [][Next]_vars

(***************************************************************************)
(* The session harness: Update from the view main of a running interactive *)
(* program that has already handled earlier events.  The store it loaded   *)
(* held the profiles b and bb.                                             *)
(***************************************************************************)
SessionStore == "b|none|none|\nbb|p|http|-x\n"

SessionProfiles == LoadLines(NoProfiles, Split(SessionStore, "\n"))

\* what earlier events left behind: nothing yet, a cancelled edit, a declined
\* delete, a confirmed delete
SessionPasts == {"none", "edit cancelled", "delete declined", "delete confirmed"}

SessionInit ==
    /\ pc = "run" /\ cmd = "" /\ cmdProfile = "" /\ exitCode = -1 /\ stdout = ""
    /\ goos = "linux" /\ build = "main" /\ diskOK = TRUE
    /\ binaries = {"/usr/bin/chromium"} /\ chromePath = FindBrowser(binaries) /\ err = ""
    /\ IdleSpawn
    /\ dirs \in InitDirs
    /\ saved = NoProfiles /\ cleanRun = NoClean /\ flow = ""
    /\ currentView = "main" /\ nkeys = 0
    /\ profileList = DOMAIN SessionProfiles
    /\ fileExists = TRUE
    /\ \E past \in SessionPasts, p \in DOMAIN SessionProfiles :
          /\ selected = IF past = "none" THEN "" ELSE p
          /\ key = CASE past = "none" -> ""
                      [] past = "edit cancelled" -> "esc"
                      [] past = "delete declined" -> "n"
                      [] OTHER -> "y"
          /\ profileName = IF past = "edit cancelled" THEN SessionProfiles[p].Name ELSE ""
          /\ profileProxy = IF past = "edit cancelled" THEN SessionProfiles[p].Proxy ELSE ""
          /\ profileType = IF past = "edit cancelled" THEN SessionProfiles[p].ProxyType ELSE ""
          /\ profileFlags = IF past = "edit cancelled" THEN SessionProfiles[p].Flags ELSE ""
          /\ message = IF past = "delete confirmed"
                       THEN "Profile '" \o p \o "' deleted" ELSE ""
          /\ profiles = IF past = "delete confirmed"
                        THEN MapDelete(SessionProfiles, p) ELSE SessionProfiles
          /\ file \in (IF past = "delete confirmed"
                        THEN SaveContents(profiles) ELSE {SessionStore})

SessionNext ==
    \/ KeyCtrlC
    \/ KeyEsc
    \/ MainEnter
    \/ SelectProfileEnter
    \/ ManageEnter
    \/ SelectEditEnter
    \/ SelectDeleteEnter
    \/ ConfirmDeleteYes
    \/ ConfirmDeleteNo
    \/ SelectCleanEnter
    \/ EditorDigit
    \/ EditorSave
    \/ FieldEnter
    \/ FieldBackspace
    \/ FieldRune
    \/ KeyIgnored

SpecSession == SessionInit /\ [][SessionNext]_vars

(***************************************************************************)
(* Properties of the store.                                                *)
(***************************************************************************)
\* the number of '|' bytes of a line, plus one
NumFields(l) == 1 + Cardinality({ i \in 1..Len(l) : Char(l, i) = "|" })

NoPipe(p) ==
    ~Contains(p.Name, "|") /\ ~Contains(p.Proxy, "|") /\
    ~Contains(p.ProxyType, "|") /\ ~Contains(p.Flags, "|")

\* a line of four fields that is neither blank nor a comment
ValidLine(l) == l # "" /\ ~HasPrefix(l, "#") /\ NumFields(l) = 4

\* blank, comment, short or valid: the lines the tolerance is about
ToleratedLine(l) == l = "" \/ HasPrefix(l, "#") \/ NumFields(l) <= 4

\* the text of a profile's line, without its newline
LineOf(p) == p.Name \o "|" \o p.Proxy \o "|" \o p.ProxyType \o "|" \o p.Flags

FileLines == Split(file, "\n")

\* C1: Round-trip. For every mapping whose fields hold no '|', saveProfiles
\* (the write succeeding) followed by loadProfiles into an empty mapping
\* yields a mapping equal to the saved one.
C1_RoundTrip ==
    (pc = "reloaded" /\ diskOK /\ \A n \in DOMAIN saved : NoPipe(saved[n]))
        => profiles = saved

\* C2: Malformed-line tolerance. After loadProfiles of a file made of valid
\* four-field lines, blank lines, '#' lines and short lines, the mapping
\* holds exactly the profiles of the valid lines (the last line of a name
\* wins); a '#' line and a short line produce nothing and stop nothing.
C2_MalformedLineTolerance ==
    (pc = "loaded" /\ \A i \in 1..Len(FileLines) : ToleratedLine(FileLines[i]))
        => /\ \A n \in DOMAIN profiles :
                /\ profiles[n].Name = n
                /\ \E i \in 1..Len(FileLines) :
                      /\ ValidLine(FileLines[i])
                      /\ FileLines[i] = LineOf(profiles[n])
                      /\ \A j \in (i + 1)..Len(FileLines) :
                            ValidLine(FileLines[j]) => ~HasPrefix(FileLines[j], n \o "|")
           /\ \A i \in 1..Len(FileLines) :
                ValidLine(FileLines[i])
                    => \E n \in DOMAIN profiles : HasPrefix(FileLines[i], n \o "|")

\* a load that met a comment with four fields, a short line, a valid line and
\* a blank last line, and kept the valid line's profile only
C2_Witness ==
    /\ pc = "loaded"
    /\ file = "#a|p|http|-x\na|p\nb|p|http|\n"
    /\ DOMAIN profiles = {"b"}

\* C3: First-run seeding. A load that finds no store file creates it (the
\* write succeeding) and leaves exactly 'default' and 'clean' in the mapping,
\* both with proxy none/none and the fixed flags; a load that finds the file
\* adds no default and does not rewrite the file.
C3_FirstRunSeeding ==
    [][ (pc = "fresh" /\ pc' = "loaded") =>
          /\ (~fileExists /\ diskOK) =>
                /\ fileExists'
                /\ DOMAIN profiles' = {"default", "clean"}
                /\ profiles'["default"] = Profile("default", "none", "none", DefaultFlags)
                /\ profiles'["clean"] = Profile("clean", "none", "none", CleanFlags)
          /\ fileExists =>
                /\ fileExists' /\ file' = file
                /\ \A n \in DOMAIN profiles' :
                      \E i \in 1..Len(FileLines) : HasPrefix(FileLines[i], n \o "|")
      ]_vars

\* a first run: the file was created and the two defaults were loaded from it
C3_Witness ==
    /\ pc = "loaded"
    /\ fileExists /\ file = SeedContent
    /\ DOMAIN profiles = {"default", "clean"}

(***************************************************************************)
(* Properties of the argument list.                                        *)
(***************************************************************************)
\* a token of a flags string starts at i: a non-space byte after a space or
\* at the start
IsTokenStart(f, i) == Char(f, i) # " " /\ (i = 1 \/ Char(f, i - 1) = " ")

TokenStarts(f) == { i \in 1..Len(f) : IsTokenStart(f, i) }

\* the k-th token of f: the longest space-free run from the k-th start
TokenOf(f, k) ==
    LET i == CHOOSE x \in TokenStarts(f) :
                Cardinality({ y \in TokenStarts(f) : y < x }) = k - 1
        j == CHOOSE y \in i..Len(f) :
                /\ \A z \in i..y : Char(f, z) # " "
                /\ (y = Len(f) \/ Char(f, y + 1) = " ")
    IN  SubSeq(f, i, j)

\* a name that is one plain path element
PlainName(n) == n # "" /\ n # "." /\ n # ".." /\ ~Contains(n, "/")

\* the profile the launch harness launched
Launched == profiles[cmdProfile]

HasLaunched == pc = "launch" /\ cmdProfile \in DOMAIN profiles /\ cmdArgs # <<>>

\* how many arguments the proxy rule contributed
ProxyGroup ==
    SubSeq(cmdArgs, 4,
           Len(cmdArgs) - Len(StandardFlags) - Cardinality(TokenStarts(Launched.Flags)))

\* C4: Argument order. The argument list is the user-data-dir argument of the
\* profile's working directory, '--new-window', 'about:blank', the proxy
\* argument (none or one), the non-empty space-separated tokens of the flags
\* in their order, then the fixed suppression tail, and nothing else.
C4_ArgumentOrder ==
    HasLaunched =>
        LET p == Launched
            nProxy == IF p.Proxy = "none" THEN 0 ELSE 1
            nTok == Cardinality(TokenStarts(p.Flags))
            nTail == Len(StandardFlags)
        IN  /\ Len(cmdArgs) = 3 + nProxy + nTok + nTail
            /\ cmdArgs[1] = "--user-data-dir=" \o PathJoin(ProfileDir, p.Name)
            /\ PlainName(p.Name) =>
                  cmdArgs[1] = "--user-data-dir=" \o ProfileDir \o "/" \o p.Name
            /\ cmdArgs[2] = "--new-window"
            /\ cmdArgs[3] = "about:blank"
            /\ nProxy = 1 => HasPrefix(cmdArgs[4], "--proxy-server=")
            /\ \A k \in 1..nTok : cmdArgs[3 + nProxy + k] = TokenOf(p.Flags, k)
            /\ SubSeq(cmdArgs, 3 + nProxy + nTok + 1, Len(cmdArgs)) = StandardFlags

\* the spec's example: proxy 127.0.0.1:8080 of type http, two flags between
\* doubled spaces
C4_Witness ==
    /\ HasLaunched
    /\ Launched.Flags = " --a  --b "
    /\ cmdArgs[1] = "--user-data-dir=/home/u/.chrome_profiles/a"
    /\ cmdArgs[4] = "--proxy-server=http://127.0.0.1:8080"
    /\ cmdArgs[5] = "--a" /\ cmdArgs[6] = "--b"
    /\ cmdArgs[7] = "--disable-logging"

EditConfirmed == Interactive /\ currentView = "edit_profile" /\ key' = "enter"

\* Update takes Enter in add_profile or edit_profile
SaveAsked == Interactive /\ currentView \in EditorViews /\ key' = "enter"

\* the buffer name is a new key: not empty, not the name loaded, not in the store
RenamesToNewKey ==
    /\ profileName # ""
    /\ profileName # selected
    /\ profileName \notin DOMAIN profiles

\* the buffer name is refused: empty, or another profile's key
NameRefused ==
    \/ profileName = ""
    \/ (profileName # selected /\ profileName \in DOMAIN profiles)

\* the store file holds one line per profile of mapping m, each ended by a
\* newline, in some order, and nothing else
Persisted(m, exists, contents) ==
    LET lines == Split(contents, "\n")
        n == Cardinality(DOMAIN m)
    IN  /\ exists
        /\ Len(lines) = n + 1
        /\ lines[n + 1] = ""
        /\ \A k \in DOMAIN m : \E i \in 1..n : lines[i] = LineOf(m[k])
        /\ \A i \in 1..n : \E k \in DOMAIN m : lines[i] = LineOf(m[k])

\* C6: Rename-on-edit. Enter in edit_profile, the profile loaded under name A
\* (cm.selected) and the buffer name a non-empty B that is neither A nor a key
\* of the mapping: key A is gone, key B holds the four buffer fields, every
\* other profile is as it was, the view is main, and, the disk accepting the
\* write, the store file holds exactly the new mapping.
C6_RenameOnEdit ==
    [][ (EditConfirmed /\ RenamesToNewKey) =>
           /\ selected \notin DOMAIN profiles'
           /\ DOMAIN profiles' = (DOMAIN profiles \ {selected}) \cup {profileName}
           /\ profiles'[profileName] =
                 [Name |-> profileName, Proxy |-> profileProxy,
                  ProxyType |-> profileType, Flags |-> profileFlags]
           /\ \A n \in DOMAIN profiles \ {selected} : profiles'[n] = profiles[n]
           /\ currentView' = "main"
           /\ diskOK => Persisted(profiles', fileExists', file')
      ]_vars

\* 'bb' was renamed 'bbb' beside 'b', and the file was rewritten
C6_Witness ==
    /\ key = "enter" /\ currentView = "main"
    /\ selected = "bb" /\ profileName = "bbb"
    /\ DOMAIN profiles = {"b", "bbb"}
    /\ profiles["bbb"].Proxy = "p"
    /\ message = "Profile 'bbb' updated"
    /\ diskOK
    /\ file \in {"b|none|none|\nbbb|p|http|-x\n", "bbb|p|http|-x\nb|none|none|\n"}

\* C7: Validation failure mutates nothing. Enter in add_profile or
\* edit_profile with an empty buffer name, or with a buffer name that differs
\* from cm.selected and is a key of the mapping: the mapping, the store file
\* and the buffer are as they were, a message naming the failure is set, and
\* the view is the one it was.
C7_ValidationFailure ==
    [][ (SaveAsked /\ NameRefused) =>
           /\ profiles' = profiles
           /\ fileExists' = fileExists /\ file' = file
           /\ bufVars' = bufVars
           /\ message' = (IF profileName = "" THEN "Profile name is required"
                          ELSE "Profile '" \o profileName \o "' already exists")
           /\ currentView' = currentView
      ]_vars

\* the edit of 'b' asked for the name 'bb', which is another profile's
C7_Witness ==
    /\ key = "enter" /\ currentView = "edit_profile"
    /\ selected = "b" /\ profileName = "bb"
    /\ DOMAIN profiles = {"b", "bb"}
    /\ profiles["bb"].Proxy = "p"
    /\ message = "Profile 'bb' already exists"

\* Update takes k in the view confirm_delete
Answered(k) == Interactive /\ currentView = "confirm_delete" /\ key' = k

\* C8: Declined delete. 'n' or 'N' in confirm_delete: the profile chosen in
\* select_delete is a key of the mapping, the mapping and the store file are
\* as they were, and the view is main.
C8_DeclinedDelete ==
    [][ (Answered("n") \/ Answered("N")) =>
           /\ selected \in DOMAIN profiles'
           /\ profiles' = profiles
           /\ fileExists' = fileExists /\ file' = file
           /\ currentView' = "main"
      ]_vars

\* 'bb' was chosen and kept
C8_Witness ==
    /\ key \in {"n", "N"} /\ currentView = "main"
    /\ selected = "bb"
    /\ DOMAIN profiles = {"b", "bb"}
    /\ fileExists /\ file = "b|none|none|\nbb|p|http|-x\n"

\* C9: Confirmed delete. 'y' or 'Y' in confirm_delete: the profile chosen in
\* select_delete was a key of the mapping and is the one key removed, every
\* other profile is as it was, a message names the deleted profile, the view
\* is main, and, the disk accepting the write, the store file holds exactly
\* the remaining profiles.
C9_ConfirmedDelete ==
    [][ (Answered("y") \/ Answered("Y")) =>
           /\ selected \in DOMAIN profiles
           /\ DOMAIN profiles' = DOMAIN profiles \ {selected}
           /\ \A n \in DOMAIN profiles' : profiles'[n] = profiles[n]
           /\ message' = "Profile '" \o selected \o "' deleted"
           /\ currentView' = "main"
           /\ diskOK => Persisted(profiles', fileExists', file')
      ]_vars

\* 'bb' was chosen and deleted, 'b' stays in the mapping and in the file
C9_Witness ==
    /\ key \in {"y", "Y"} /\ currentView = "main"
    /\ selected = "bb"
    /\ DOMAIN profiles = {"b"}
    /\ message = "Profile 'bb' deleted"
    /\ diskOK /\ file = "b|none|none|\n"

(***************************************************************************)
(* Properties of clean.                                                    *)
(***************************************************************************)
\* a step that cleans: Enter on a profile of select_clean, or the subcommand
CleanStep ==
    \/ Interactive /\ currentView = "select_clean" /\ key' = "enter" /\ profileList # {}
    \/ pc = "run" /\ cmd = "clean"

\* the names inside the directory at path, in file system <<d, exists>>
EntriesIn(d, exists, path) ==
    IF path = ProfileDir
    THEN DOMAIN d \cup (IF exists THEN {"profiles.conf"} ELSE {})
    ELSE DOMAIN d[ChildOf(path)].entries

\* there is a directory at path, in directories d
DirIn(d, path) ==
    \/ path = ProfileDir
    \/ (ChildOf(path) \in DOMAIN d /\ d[ChildOf(path)].isDir)

\* the profile name the clean step was given: the subcommand's option, the
\* item of the list whose directory was cleaned
CleanNames ==
    IF cmd = "clean" THEN {cmdProfile}
    ELSE { t \in profileList : PathJoin(ProfileDir, t) = cleanRun'.path }

\* what the step reported: the message of the view, the line of the subcommand
CleanReport == IF cmd = "clean" THEN stdout' ELSE message'

\* C10: Clean empties but keeps the directory. A clean (select_clean or the
\* subcommand) of a profile whose working directory exists, the directory
\* listed and every removal succeeding: the directory is still there, nothing
\* is inside it, every other directory is as it was, and the report is the
\* success text naming the profile.
C10_CleanKeepsDirectory ==
    [][ CleanStep =>
           LET path == cleanRun'.path
               name == ChildOf(path)
           IN  (/\ PathIsDir(path)
                /\ cleanRun'.readOK
                /\ cleanRun'.k = Len(DirListing(path)))
               => /\ DirIn(dirs', path)
                  /\ EntriesIn(dirs', fileExists', path) = {}
                  /\ path # ProfileDir =>
                        \A n \in DOMAIN dirs \ {name} :
                           n \in DOMAIN dirs' /\ dirs'[n] = dirs[n]
                  /\ \E t \in CleanNames :
                        CleanReport = "Profile '" \o t \o "' completely cleared and reset"
      ]_vars

\* the directory of 'b' held Cache and Local State and holds nothing now
C10_Witness ==
    /\ key = "enter" /\ currentView = "main"
    /\ cleanRun.path = "/home/u/.chrome_profiles/b"
    /\ cleanRun.readOK /\ cleanRun.k = 2
    /\ "b" \in DOMAIN dirs /\ dirs["b"].isDir /\ DOMAIN dirs["b"].entries = {}
    /\ message = "Profile 'b' completely cleared and reset"

\* C11: Clean of a missing directory. A clean of a profile whose working
\* directory does not exist reports 'does not exist' and leaves the
\* directories and the store file as they were; every Enter on a profile of
\* select_clean, whatever its outcome (missing, read error, removal error,
\* success), ends in the view main.
C11_CleanMissingDirectory ==
    [][ CleanStep =>
           /\ ~PathExists(cleanRun'.path) =>
                 /\ CleanReport = (IF cmd = "clean"
                                   THEN "Error: Profile directory does not exist"
                                   ELSE "Profile directory does not exist")
                 /\ dirs' = dirs
                 /\ fileExists' = fileExists /\ file' = file
           /\ cmd = "" => currentView' = "main"
      ]_vars

\* 'bb' has no directory: the clean said so and made none
C11_Witness ==
    /\ key = "enter" /\ currentView = "main"
    /\ cleanRun.path = "/home/u/.chrome_profiles/bb"
    /\ "bb" \notin DOMAIN dirs
    /\ message = "Profile directory does not exist"

(***************************************************************************)
(* Properties of the global keys and of persistence.                       *)
(***************************************************************************)
\* Update takes Esc outside main
BackPressed == Interactive /\ currentView # "main" /\ key' = "esc"

\* C12: Global back. Esc in a view other than main: the view is main, the
\* message is empty, and the mapping, the store file and the edit buffer are
\* as they were, whatever the buffer holds.
C12_GlobalBack ==
    [][ BackPressed =>
           /\ currentView' = "main"
           /\ message' = ""
           /\ profiles' = profiles
           /\ fileExists' = fileExists /\ file' = file
           /\ bufVars' = bufVars
      ]_vars

\* Esc left a field editor with the name 'bbb' typed and not saved
C12_Witness ==
    /\ key = "esc" /\ currentView = "main"
    /\ selected = "bb" /\ profileName = "bbb"
    /\ DOMAIN profiles = {"b", "bb"}
    /\ message = ""

SaveStep ==
    \/ (SaveAsked /\ ~NameRefused)
    \/ Answered("y") \/ Answered("Y")

\* the messages that report a save as done
SuccessText ==
    { "Profile '" \o profileName \o "' updated", "Profile '" \o selected \o "' deleted" }

\* C17: Save write failure. A save whose write of the store file fails: the
\* message after the step is not one that reports success, and the mapping
\* holds the mutation.
C17_SaveFailureReported ==
    [][ (SaveStep /\ ~diskOK) =>
           /\ message' \notin SuccessText
           /\ (SaveAsked => profileName \in DOMAIN profiles')
           /\ (~SaveAsked => selected \notin DOMAIN profiles')
      ]_vars

C14_NonEmptyName ==
    pc = "loaded" => \A n \in DOMAIN profiles : n # "" /\ profiles[n].Name # ""

(***************************************************************************)
(* Properties of cm.selected.                                              *)
(***************************************************************************)
\* C15: originalName is empty when adding. Whenever the view is add_profile,
\* cm.selected is the empty string.
C15_OriginalNameEmptyWhenAdding ==
    (Interactive /\ currentView = "add_profile") => selected = ""

(***************************************************************************)
(* Properties of the subcommands.                                          *)
(***************************************************************************)
\* the launch subcommand did not start a browser: the profile is unknown or
\* every mechanism tried failed
LaunchFailed == cmd = "launch" /\ ~HasPrefix(stdout, "Launched with profile: ")

\* the clean subcommand met an entry it could not remove
RemovalFailed ==
    cmd = "clean" /\ cleanRun.readOK /\ PathIsDir(cleanRun.path)
        /\ stdout = "Error cleaning profile: remove"

\* C16: Non-interactive exit status. A process that has exited: the status is
\* not zero after a failed launch and after a clean that could not remove an
\* entry, and it is zero after list, version and help.
C16_ExitStatus ==
    pc = "exit" =>
        /\ LaunchFailed => exitCode # 0
        /\ RemovalFailed => exitCode # 0
        /\ cmd \in {"list", "version", "help"} => exitCode = 0

(***************************************************************************)
(* Properties of the spawn chain.                                          *)
(***************************************************************************)
\* the mechanisms of a platform branch, in the order of the source text
Chain ==
    IF build = "part_000" \/ goos = "darwin" THEN <<"direct", "script", "open">>
    ELSE IF goos = "linux" THEN <<"direct", "nohup", "xdg-open">>
    ELSE <<"direct">>

\* C18: Launch fallback ordering. The mechanisms a launch tried are the
\* first ones of its platform's chain, in the chain's order, the direct spawn
\* first; every one but the last tried failed to start, so that a mechanism
\* is tried only after the one before it failed and none is tried after one
\* that started.
C18_FallbackOrdering ==
    HasLaunched =>
        /\ Len(attempts) >= 1 /\ Len(attempts) <= Len(Chain)
        /\ Len(started) = Len(attempts)
        /\ attempts[1] = "direct"
        /\ \A i \in 1..Len(attempts) : attempts[i] = Chain[i]
        /\ \A i \in 1..Len(attempts) - 1 : ~started[i]

\* linux: the direct spawn and nohup failed, xdg-open started
C18_Witness ==
    /\ HasLaunched
    /\ goos = "linux" /\ build = "main"
    /\ attempts = <<"direct", "nohup", "xdg-open">>
    /\ started = <<FALSE, FALSE, TRUE>>

\* one of the mechanisms tried started
AnyStarted == \E i \in 1..Len(started) : started[i]

HasSeed(d, path) ==
    IF path = ProfileDir
    THEN "Local State" \in DOMAIN d
    ELSE DirIn(d, path) /\ "Local State" \in DOMAIN d[ChildOf(path)].entries

\* its contents
SeedOf(d, path) ==
    IF path = ProfileDir
    THEN d["Local State"].data
    ELSE d[ChildOf(path)].entries["Local State"]

\* C20: Seed file written only if absent. A launch of a profile of the
\* mapping: a 'Local State' that is in the working directory is there
\* afterwards with the contents it had; one that is not there (no directory
\* yet, or a directory without it) is there afterwards, in the working
\* directory, with the fixed JSON contents, the disk accepting the writes.
C20_SeedOnlyIfAbsent ==
    [][ (pc = "launch" /\ cmdProfile \in DOMAIN profiles) =>
           LET path == PathJoin(ProfileDir, profiles[cmdProfile].Name)
           IN  /\ HasSeed(dirs, path) =>
                     HasSeed(dirs', path) /\ SeedOf(dirs', path) = SeedOf(dirs, path)
               /\ (~HasSeed(dirs, path) /\ diskOK) =>
                     /\ DirIn(dirs', path)
                     /\ HasSeed(dirs', path)
                     /\ SeedOf(dirs', path) = PrefsData
      ]_vars

\* the directory of 'a' held a Cache and no 'Local State': the launch wrote it
C20_Witness ==
    /\ HasLaunched
    /\ cmdProfile = "a"
    /\ "a" \in DOMAIN dirs
    /\ DOMAIN dirs["a"].entries = {"Cache", "Local State"}
    /\ dirs["a"].entries["Local State"] = PrefsData
    /\ dirs["a"].entries["Cache"] = "x"

(***************************************************************************)
(* Finding the browser.                                                    *)
(***************************************************************************)
Candidates == ChromePaths(goos)

SomeExists == \E i \in DOMAIN Candidates : Candidates[i] \in binaries

\* i is the place of the first candidate that exists
FirstExisting(i) ==
    /\ i \in DOMAIN Candidates
    /\ Candidates[i] \in binaries
    /\ \A j \in 1..(i - 1) : Candidates[j] \notin binaries

\* C21: after detectPlatform the executable path is never empty; when a
\* candidate of the platform's list exists the path is the first one that
\* exists and no discovery error is recorded; when none exists a discovery
\* error is recorded.
C21_Discovery ==
    pc = "detected" =>
        /\ chromePath # ""
        /\ SomeExists => /\ err = ""
                         /\ \E i \in DOMAIN Candidates :
                               FirstExisting(i) /\ chromePath = Candidates[i]
        /\ ~SomeExists => err # ""

(***************************************************************************)
(* The views.                                                              *)
(***************************************************************************)
\* C22: the view is main until the first key message, and in every state it
\* is one of the thirteen views.
C22_ViewInvariant ==
    /\ nkeys = 0 => currentView = "main"
    /\ currentView \in Views
    /\ Cardinality(Views) = 13

\* a run that used every key message it had and stands in the last of the views
C22_Witness == Interactive /\ nkeys = MaxKeys /\ currentView = "edit_flags"

(***************************************************************************)
(* The edit buffer.                                                        *)
(***************************************************************************)
\* Enter on 'Add New Profile' in manage
AddConfirmed ==
    Interactive /\ currentView = "manage" /\ key' = "enter" /\ currentView' = "add_profile"

\* C23: confirming 'Add New Profile' sets the buffer to the empty name, proxy
\* none, proxy type none and the fixed flags, whatever it held.
C23_AddResetsBuffer ==
    [][ AddConfirmed =>
           /\ profileName' = ""
           /\ profileProxy' = "none"
           /\ profileType' = "none"
           /\ profileFlags' = "--no-first-run --disable-features=RendererCodeIntegrity" ]_vars

\* Add New Profile confirmed as the sixth key: after Manage, Edit Profile, a
\* profile and Esc, so that the buffer held the profile of a cancelled edit
C23_Witness ==
    /\ Interactive /\ nkeys = 6 /\ key = "enter"
    /\ currentView = "add_profile" /\ selected # ""
    /\ profileName = "" /\ profileProxy = "none" /\ profileType = "none"

\* Enter in a field editor
FieldConfirmed == Interactive /\ currentView \in FieldViews /\ key' = "enter"

\* a digit key in add_profile or edit_profile
DigitPressed == Interactive /\ currentView \in EditorViews /\ key' \in {"1", "2", "3", "4"}

\* the buffer and the store (the mapping and its file) stay as they are
BufferAndStoreKept == UNCHANGED <<bufVars, profiles, fileExists, file>>

\* C24: Enter in a field editor goes to edit_profile when originalName is set
\* and to add_profile otherwise; '1'..'4' in add_profile or edit_profile go to
\* edit_name, edit_proxy, edit_type, edit_flags; neither changes the buffer or
\* the store.
C24_FieldEditorConfirm ==
    [][ /\ FieldConfirmed =>
              /\ selected # "" => currentView' = "edit_profile"
              /\ selected = "" => currentView' = "add_profile"
              /\ BufferAndStoreKept
        /\ DigitPressed =>
              /\ key' = "1" => currentView' = "edit_name"
              /\ key' = "2" => currentView' = "edit_proxy"
              /\ key' = "3" => currentView' = "edit_type"
              /\ key' = "4" => currentView' = "edit_flags"
              /\ BufferAndStoreKept ]_vars

\* back in add_profile from a field editor, with the name typed there kept
C24_Witness ==
    /\ Interactive /\ key = "enter" /\ currentView = "add_profile"
    /\ selected = "" /\ profileName = "b" /\ "b" \notin DOMAIN profiles

\* the field a field editor edits
FieldOf(view) ==
    CASE view = "edit_name" -> profileName
      [] view = "edit_proxy" -> profileProxy
      [] view = "edit_type" -> profileType
      [] OTHER -> profileFlags

\* a string without its last character: a character is one byte, or the two
\* bytes of U+00E9
WithoutLastChar(s) ==
    IF s = "" THEN s
    ELSE IF Len(s) >= 2 /\ SubSeq(s, Len(s) - 1, Len(s)) = EAcute
    THEN SubSeq(s, 1, Len(s) - 2)
    ELSE SubSeq(s, 1, Len(s) - 1)

BackspacePressed == Interactive /\ currentView \in FieldViews /\ key' = "backspace"

RunePressed == Interactive /\ currentView \in FieldViews /\ key' \in TextRunes

\* the field being edited becomes new; the other three fields, originalName,
\* the view and the store stay
OnlyFieldBecomes(new) ==
    /\ profileName' = IF currentView = "edit_name" THEN new ELSE profileName
    /\ profileProxy' = IF currentView = "edit_proxy" THEN new ELSE profileProxy
    /\ profileType' = IF currentView = "edit_type" THEN new ELSE profileType
    /\ profileFlags' = IF currentView = "edit_flags" THEN new ELSE profileFlags
    /\ UNCHANGED <<selected, currentView, profiles, fileExists, file>>

\* C25: in a field editor Backspace removes exactly the last character of the
\* field (nothing when it is empty) and a character key appends what was
\* typed; the other fields, originalName, the view and the store are unchanged.
C25_FieldTextInput ==
    [][ /\ BackspacePressed => OnlyFieldBecomes(WithoutLastChar(FieldOf(currentView)))
        /\ RunePressed => OnlyFieldBecomes(FieldOf(currentView) \o key') ]_vars

\* Enter on a profile of select_edit
EditChosen ==
    Interactive /\ currentView = "select_edit" /\ key' = "enter" /\ profileList # {}

\* C26: confirming a profile in select_edit records it as originalName, sets
\* the four buffer fields to its stored fields and moves to edit_profile; the
\* profile is a key of the mapping, and the store is unchanged.
C26_EditLoadsProfile ==
    [][ EditChosen =>
           /\ selected' \in profileList
           /\ selected' \in DOMAIN profiles
           /\ profileName' = profiles[selected'].Name
           /\ profileProxy' = profiles[selected'].Proxy
           /\ profileType' = profiles[selected'].ProxyType
           /\ profileFlags' = profiles[selected'].Flags
           /\ currentView' = "edit_profile"
           /\ UNCHANGED <<profiles, fileExists, file>> ]_vars

\* the stored profile bb|p|http|-x chosen for editing
C26_Witness ==
    /\ Interactive /\ key = "enter" /\ currentView = "edit_profile" /\ nkeys = 3
    /\ selected = "bb" /\ profileName = "bb"
    /\ profileProxy = "p" /\ profileType = "http" /\ profileFlags = "-x"

(***************************************************************************)
(* Delete and the working directories.                                     *)
(***************************************************************************)
\* C27: a confirmed delete of a profile takes it out of the mapping and (the
\* disk accepting the write) out of the store file, and leaves every working
\* directory, the deleted profile's included, with all that is inside it.
C27_DeleteKeepsDirectory ==
    [][ (Answered("y") \/ Answered("Y")) =>
           /\ selected \notin DOMAIN profiles'
           /\ diskOK => Persisted(profiles', fileExists', file')
           /\ dirs' = dirs ]_vars

\* 'b' was deleted from the mapping and the file; its directory still holds
\* its Cache and its Local State
C27_Witness ==
    /\ key \in {"y", "Y"} /\ currentView = "main" /\ selected = "b"
    /\ message = "Profile 'b' deleted"
    /\ "b" \notin DOMAIN profiles
    /\ diskOK /\ fileExists /\ ~Contains(file, "b")
    /\ "b" \in DOMAIN dirs
    /\ DOMAIN dirs["b"].entries = {"Cache", "Local State"}

(***************************************************************************)
(* The lines loadProfiles takes.                                           *)
(***************************************************************************)
\* C28: after loadProfiles every profile of the mapping is the four fields, in
\* order, of a line of the file that is neither blank nor a comment and has
\* exactly four fields, and every such line gave a profile under its name; a
\* line with another number of fields gives none.
C28_FourFieldLinesOnly ==
    pc = "loaded" =>
        /\ \A n \in DOMAIN profiles :
              \E i \in 1..Len(FileLines) :
                 ValidLine(FileLines[i]) /\ FileLines[i] = LineOf(profiles[n])
        /\ \A i \in 1..Len(FileLines) :
              ValidLine(FileLines[i])
                  => \E n \in DOMAIN profiles : HasPrefix(FileLines[i], n \o "|")

(***************************************************************************)
(* Clean and a removal that fails.                                         *)
(***************************************************************************)
\* the step is a clean whose loop met an entry os.RemoveAll could not remove
RemovalFails ==
    /\ CleanStep
    /\ PathIsDir(cleanRun'.path) /\ cleanRun'.readOK
    /\ cleanRun'.k < Len(DirListing(cleanRun'.path))

\* C29: when the removal of an entry fails during a clean, the entries listed
\* before it are gone, the failing entry and every entry after it are still
\* there as they were, the failure is reported (the message of the view, the
\* line and a non-zero exit status of the subcommand) and the success text is
\* not produced.
C29_CleanAbortsOnFailure ==
    [][ RemovalFails =>
           LET path == cleanRun'.path
               name == ChildOf(path)
               listing == DirListing(path)
               k == cleanRun'.k
           IN  /\ EntriesIn(dirs', fileExists', path) =
                     { listing[i] : i \in (k + 1)..Len(listing) }
               /\ path # ProfileDir =>
                     \A e \in DOMAIN dirs'[name].entries :
                        dirs'[name].entries[e] = dirs[name].entries[e]
               /\ path # ProfileDir =>
                     \A n \in DOMAIN dirs \ {name} :
                        n \in DOMAIN dirs' /\ dirs'[n] = dirs[n]
               /\ path = ProfileDir =>
                     \A n \in DOMAIN dirs' : n \in DOMAIN dirs /\ dirs'[n] = dirs[n]
               /\ CleanReport = "Error cleaning profile: remove"
               /\ \A t \in CleanNames :
                     CleanReport # "Profile '" \o t \o "' completely cleared and reset"
               /\ cmd = "clean" => pc' = "exit" /\ exitCode' # 0
               /\ cmd = "" => pc' = "run"
      ]_vars

\* interactive: Cache of 'b' was removed, the removal of Local State failed and
\* Local State is still there
C29_Witness ==
    /\ Interactive /\ key = "enter" /\ currentView = "main"
    /\ cleanRun.path = "/home/u/.chrome_profiles/b" /\ cleanRun.readOK /\ cleanRun.k = 1
    /\ "b" \in DOMAIN dirs /\ DOMAIN dirs["b"].entries = {"Local State"}
    /\ dirs["b"].entries["Local State"] = "{}"
    /\ message = "Error cleaning profile: remove"

(***************************************************************************)
(* Keys and names.                                                         *)
(***************************************************************************)
\* C30: in every state every entry of the mapping is stored under the name it
\* carries.
C30_KeyEqualsName == \A k \in DOMAIN profiles : profiles[k].Name = k

\* 'b' was renamed in the editor by typing one more character
C30_Witness ==
    /\ Interactive /\ key = "enter" /\ currentView = "main" /\ selected = "b"
    /\ "b" \notin DOMAIN profiles
    /\ ("b" \o EAcute) \in DOMAIN profiles
    /\ profiles["b" \o EAcute].Name = "b" \o EAcute
    /\ message = "Profile 'b" \o EAcute \o "' updated"

(***************************************************************************)
(* The add flow.                                                           *)
(***************************************************************************)
\* Enter in add_profile or edit_profile, the editor opened by 'Add New
\* Profile', with a name that is not in the mapping: the save goes through
AddSaved ==
    /\ Interactive /\ flow = "add"
    /\ currentView \in EditorViews /\ key' = "enter"
    /\ profileName # "" /\ profileName \notin DOMAIN profiles

\* C31: a save from the add flow with a name not in the store makes the
\* mapping one profile larger and leaves every profile it held in place with
\* its fields, whatever events came before.
C31_AddKeepsProfiles ==
    [][ AddSaved =>
           /\ Cardinality(DOMAIN profiles') = Cardinality(DOMAIN profiles) + 1
           /\ \A n \in DOMAIN profiles :
                 n \in DOMAIN profiles' /\ profiles'[n] = profiles[n] ]_vars

(***************************************************************************)
(* What a clean may touch.                                                 *)
(***************************************************************************)
\* C32: a clean of the profile named p leaves the store file and the working
\* directory of every other profile as they were.
C32_CleanConfined ==
    [][ CleanStep =>
           /\ fileExists' = fileExists /\ file' = file
           /\ \A n \in DOMAIN dirs \ CleanNames :
                 n \in DOMAIN dirs' /\ dirs'[n] = dirs[n] ]_vars

(***************************************************************************)
(* Launch of a name that is no profile.                                    *)
(***************************************************************************)
\* launchBrowser is called with a name that is not a key of the mapping
UnknownLaunch == pc = "launch" /\ cmdProfile \notin DOMAIN profiles

\* C33: launchBrowser with a name that is not a key of the mapping returns
\* the 'not found' text, makes no directory and no seed file, tries no spawn
\* and leaves the mapping and the store file as they were.
C33_UnknownLaunch ==
    [][ UnknownLaunch =>
           /\ message' = "Profile '" \o cmdProfile \o "' not found"
           /\ dirs' = dirs
           /\ attempts' = <<>> /\ started' = <<>> /\ cmdArgs' = cmdArgs
           /\ UNCHANGED <<profiles, fileExists, file>> ]_vars

\* 'zz' was asked for, the mapping holds 'a' only: nothing was made or tried
C33_Witness ==
    /\ pc = "launch" /\ cmdProfile = "zz" /\ DOMAIN profiles = {"a"}
    /\ message = "Profile 'zz' not found"
    /\ dirs = NoDirs /\ attempts = <<>> /\ cmdArgs = <<>>

(***************************************************************************)
(* What changes the store.                                                 *)
(***************************************************************************)
\* Enter in add_profile or edit_profile
SaveConfirm == currentView \in EditorViews /\ key' = "enter"

\* 'y' or 'Y' in confirm_delete
DeleteConfirm == currentView = "confirm_delete" /\ key' \in {"y", "Y"}

\* C34: an event of the interactive program changes the mapping or the store
\* file only when it is a confirm in add_profile or edit_profile or a 'y' or
\* 'Y' in confirm_delete.
C34_OnlySaveAndDelete ==
    [][ (Interactive /\ <<profiles, fileExists, file>>' # <<profiles, fileExists, file>>)
            => (SaveConfirm \/ DeleteConfirm) ]_vars

====
